---- MODULE Spec2Model ----
(***************************************************************************)
(* A model of 3_Robot_controller/network/latent.py: the modules' construc- *)
(* tors (layer lists, initialisers and the order they run in) and their    *)
(* forward passes (tensor shapes, the layer loop, the distribution         *)
(* parameters).                                                            *)
(*                                                                         *)
(* Tensors.  A tensor is [shape, data]: shape is its size tuple, data is a *)
(* representative slice of its contents: for a 2-D tensor (B, n) the n     *)
(* components of one batch row, for a 4-D tensor one component.  Element-  *)
(* wise operations act on data, shape operations on shape.  Numbers are    *)
(* fixed point, Unit to 1.0, so that 1e-5 is 1.                            *)
(*                                                                         *)
(* The framework's arithmetic (what a convolution or a Linear layer        *)
(* computes from weights the optimiser owns) is not in the source: the     *)
(* value a layer produces is drawn from a set of values, its shape is      *)
(* computed by the framework's shape rules.                                *)
(***************************************************************************)
EXTENDS Integers, Sequences, FiniteSets, TLC

\* ------------------------------------------------------------- bounds
\* batch sizes 1..MaxBatch
MaxBatch == 2
\* channel counts, input_dim, output_dim, latent_dim: 1..MaxDim
MaxDim == 2
\* kernel heights and widths of the modules handed to weight_init directly
MaxKernel == 3

\* ---------------------------------------------------------- fixed point
Unit == 10^5
\* the 1e-5 added to the learned scale (Gaussian.forward), in fixed point
Eps == 1
\* leaky_slope=0.2, the default of every constructor
LeakySlope == 20000
\* std=1.0, the default of ConstantGaussian and Decoder
StdOne == 100000
\* std=np.sqrt(0.1), LatentNetwork's decoder
StdSqrtTenth == 31622
\* the Encoder's head reads 27*27*64 features
FlatFeatures == 27 * 27 * 64

\* A std setting: None, or a number
StdNone == [isNone |-> TRUE, v |-> 0]
StdOf(v) == [isNone |-> FALSE, v |-> v]

Abs(v) == IF v < 0 THEN -v ELSE v

\* floor(v / d) for d > 0 and any sign of v is TLA+'s \div
CeilDiv(n, d) == (n + d - 1) \div d

RECURSIVE Prod(_)
Prod(s) == IF s = <<>> THEN 1 ELSE Head(s) * Prod(Tail(s))

\* ------------------------------------------------------------- tensors
Tensor(shape, data) == [shape |-> shape, data |-> data]

Ndim(t) == Len(t.shape)
LastDim(t) == t.shape[Len(t.shape)]
ButLast(s) == SubSeq(s, 1, Len(s) - 1)

\* torch.cat(xs, dim=-1) of a list of tensors: the leading sizes must agree
CatOk(xs) ==
    /\ Len(xs) >= 1
    /\ \A k \in 1..Len(xs) : Ndim(xs[k]) = Ndim(xs[1]) /\ Ndim(xs[k]) >= 1
    /\ \A k \in 1..Len(xs) : ButLast(xs[k].shape) = ButLast(xs[1].shape)

RECURSIVE CatData(_)
CatData(xs) == IF xs = <<>> THEN <<>> ELSE Head(xs).data \o CatData(Tail(xs))

RECURSIVE CatWidth(_)
CatWidth(xs) == IF xs = <<>> THEN 0 ELSE LastDim(Head(xs)) + CatWidth(Tail(xs))

TorchCat(xs) == Tensor(Append(ButLast(xs[1].shape), CatWidth(xs)), CatData(xs))

\* torch.chunk(t, chunks, dim=-1): pieces of ceil(n / chunks) components, the
\* last one shorter, and fewer than `chunks` pieces when n is too small
ChunkSize(n, chunks) == CeilDiv(n, chunks)

TorchChunk(t, chunks) ==
    LET n == LastDim(t)
        sz == ChunkSize(n, chunks)
        cnt == IF n = 0 THEN 1 ELSE CeilDiv(n, sz)
        lo(k) == (k - 1) * sz + 1
        hi(k) == IF k * sz < n THEN k * sz ELSE n
    IN  [k \in 1..cnt |->
            Tensor(Append(ButLast(t.shape), hi(k) - lo(k) + 1),
                   SubSeq(t.data, lo(k), hi(k)))]

\* torch.ones_like(t) * c
OnesLikeTimes(t, c) == Tensor(t.shape, [k \in 1..Len(t.data) |-> c])

\* F.softplus: log(1 + exp(x)), rounded down to the fixed point.  Below -11 it
\* is under 1e-5 (and exactly 0.0 in float32 from about -104 on); above the
\* framework's threshold it is x itself.
SoftplusTab ==
    <<1, 4, 12, 33, 91, 247, 671, 1814, 4858, 12692, 31326, 69314, 131326,
      212692, 304858, 401814, 500671, 600247, 700091, 800033, 900012,
      1000004, 1100001>>

Softplus(v) ==
    LET n == v \div Unit
    IN  IF n < -11 THEN 0
        ELSE IF n > 11 THEN v
        ELSE SoftplusTab[n + 12]

\* torch.tanh, rounded to the fixed point; it is exactly 1.0 in float32 from
\* about 9 on
TanhTab == <<0, 76159, 96403, 99505, 99933, 99991, 99999>>

Tanh(v) ==
    LET n == Abs(v) \div Unit
        m == IF n > 6 THEN Unit ELSE TanhTab[n + 1]
    IN  IF v < 0 THEN -m ELSE m

\* F.leaky_relu(v, negative_slope): v * slope for a negative v, rounded down
\* (the product is taken in two parts to stay within 32 bits)
LeakyRelu(v, slope) ==
    IF v >= 0 THEN v
    ELSE (v \div Unit) * slope + ((v % Unit) * slope) \div Unit

\* Python's truth value of a std setting: None and 0 are false
Truthy(std) == ~std.isNone /\ std.v # 0

\* -------------------------------------------------------------- layers
\* A layer's parameters are kept by what initialised them: weight is a tag
\* ("default": the framework's own initial values, "xavier", "orthogonal",
\* "zero"), for a convolution one tag per kernel position; inits is the list
\* of initialisers that have written the layer, oldest first.
KernelPositions(kh, kw) == (0..(kh - 1)) \X (0..(kw - 1))

Linear(fin, fout) ==
    [type |-> "Linear", fin |-> fin, fout |-> fout,
     weight |-> "default", bias |-> "default", inits |-> <<>>, err |-> "none"]

ConvK(type, cin, cout, kh, kw, stride, pad, outpad) ==
    [type |-> type, cin |-> cin, cout |-> cout, kh |-> kh, kw |-> kw,
     stride |-> stride, pad |-> pad, outpad |-> outpad,
     weight |-> [pos \in KernelPositions(kh, kw) |-> "default"],
     bias |-> "default", inits |-> <<>>, err |-> "none"]

\* nn.Conv2d(cin, cout, k, stride=1, padding=0): an int kernel is k x k
Conv2d(cin, cout, k, stride, pad) ==
    ConvK("Conv2d", cin, cout, k, k, stride, pad, 0)

\* nn.ConvTranspose2d(cin, cout, k, stride=1, padding=0, output_padding=0)
ConvTranspose2d(cin, cout, k, stride, pad, outpad) ==
    ConvK("ConvTranspose2d", cin, cout, k, k, stride, pad, outpad)

Activation(name) == [type |-> name]

IsConv(m) == m.type \in {"Conv2d", "ConvTranspose2d"}

\* weight_init without the fill_(0.0) of the weight: only the centre tap and
\* the bias are written
weight_init_no_fill(m) ==
    IF m.type = "Linear"
    THEN [m EXCEPT !.weight = "orthogonal", !.bias = "zero",
                   !.inits = Append(@, "weight_init")]
    ELSE IF IsConv(m)
    THEN IF m.kh # m.kw
         THEN [m EXCEPT !.err = "AssertionError"]
         ELSE LET mid == m.kh \div 2
              IN  [m EXCEPT !.weight = [@ EXCEPT ![<<mid, mid>>] = "orthogonal"],
                            !.bias = "zero",
                            !.inits = Append(@, "weight_init")]
    ELSE m

\* weight_init(m): orthogonal weight and zero bias for a Linear layer; for a
\* convolution the assertion, then zero everywhere and an orthogonal centre
\* tap (mid, mid); nothing for any other module
weight_init(m) ==
    IF m.type = "Linear"
    THEN [m EXCEPT !.weight = "orthogonal", !.bias = "zero",
                   !.inits = Append(@, "weight_init")]
    ELSE IF IsConv(m)
    THEN IF m.kh # m.kw
         THEN [m EXCEPT !.err = "AssertionError"]
         ELSE LET mid == m.kh \div 2
              IN  [m EXCEPT !.weight = [pos \in DOMAIN @ |->
                                           IF pos = <<mid, mid>>
                                           THEN "orthogonal" ELSE "zero"],
                            !.bias = "zero",
                            !.inits = Append(@, "weight_init")]
    ELSE m

\* base.weights_init_xavier: Xavier weights and a zero bias for Linear and
\* convolution layers
weights_init_xavier(m) ==
    IF m.type = "Linear"
    THEN [m EXCEPT !.weight = "xavier", !.bias = "zero",
                   !.inits = Append(@, "weights_init_xavier")]
    ELSE IF IsConv(m)
    THEN [m EXCEPT !.weight = [pos \in DOMAIN @ |-> "xavier"],
                   !.bias = "zero",
                   !.inits = Append(@, "weights_init_xavier")]
    ELSE m

Initializers == {"weight_init", "weights_init_xavier"}

CallInit(fn, m) ==
    IF fn = "weight_init" THEN weight_init(m) ELSE weights_init_xavier(m)

\* nn.Module.apply(fn) on a container of layers (Sequential, ModuleList):
\* fn on every child, then on the container itself
ApplyLayers(fn, c) ==
    CallInit(fn, [c EXCEPT !.layers = [k \in 1..Len(@) |-> CallInit(fn, @[k])]])

\* base.create_linear_network: Linear(units, h), activation for every h of
\* hidden_units, a last Linear(units, output_dim), then .apply(initializer)
RECURSIVE LinearStack(_, _, _, _)
LinearStack(units, output_dim, hidden_units, act) ==
    IF hidden_units = <<>>
    THEN <<Linear(units, output_dim)>>
    ELSE <<Linear(units, Head(hidden_units)), Activation(act)>>
         \o LinearStack(Head(hidden_units), output_dim, Tail(hidden_units), act)

create_linear_network(input_dim, output_dim, hidden_units, act, initializer) ==
    ApplyLayers(initializer,
                [type |-> "Sequential",
                 layers |-> LinearStack(input_dim, output_dim, hidden_units, act)])

InFeatures(net) == net.layers[1].fin
OutFeatures(net) == net.layers[Len(net.layers)].fout

LinearLayers(net) ==
    {k \in 1..Len(net.layers) : net.layers[k].type = "Linear"}

LayerErr(layers) ==
    \E k \in 1..Len(layers) :
        /\ layers[k].type \in {"Linear", "Conv2d", "ConvTranspose2d"}
        /\ layers[k].err # "none"

\* -------------------------------------------------------- constructors
\* Gaussian.__init__: the network is 2*output_dim wide when std is None
Gaussian_net_width(output_dim, std) ==
    IF std.isNone THEN 2 * output_dim ELSE output_dim

Gaussian_init(input_dim, output_dim, hidden_units, std, leaky_slope) ==
    [type |-> "Gaussian",
     net |-> create_linear_network(input_dim,
                                   Gaussian_net_width(output_dim, std),
                                   hidden_units, "LeakyReLU",
                                   "weights_init_xavier"),
     std |-> std]

\* nn.Module.apply(fn) on a Gaussian: its network's modules, then itself
ApplyGaussian(fn, g) == CallInit(fn, [g EXCEPT !.net = ApplyLayers(fn, @)])

ConstantGaussian_init(output_dim, std) ==
    [type |-> "ConstantGaussian", output_dim |-> output_dim, std |-> std]

\* Decoder.__init__'s ModuleList, a 3 x 1 kernel in place of one 3
Decoder_convts_oblong(input_dim, output_dim) ==
    <<ConvTranspose2d(input_dim, 64, 27, 1, 0, 0),
      ConvTranspose2d(64, 64, 3, 1, 1, 0),
      ConvTranspose2d(64, 64, 3, 2, 1, 1),
      ConvTranspose2d(64, 32, 3, 1, 1, 0),
      ConvTranspose2d(32, 32, 3, 2, 1, 1),
      ConvTranspose2d(32, 32, 5, 2, 2, 1),
      ConvK("Conv2d", 32, 64, 3, 1, 1, 1, 0),
      Conv2d(64, 64, 3, 1, 1),
      Conv2d(64, output_dim, 3, 1, 1)>>

\* Decoder.__init__'s ModuleList self.convts, layers 0..8
Decoder_convts(input_dim, output_dim) ==
    <<ConvTranspose2d(input_dim, 64, 27, 1, 0, 0),
      ConvTranspose2d(64, 64, 3, 1, 1, 0),
      ConvTranspose2d(64, 64, 3, 2, 1, 1),
      ConvTranspose2d(64, 32, 3, 1, 1, 0),
      ConvTranspose2d(32, 32, 3, 2, 1, 1),
      ConvTranspose2d(32, 32, 5, 2, 2, 1),
      Conv2d(32, 64, 3, 1, 1),
      Conv2d(64, 64, 3, 1, 1),
      Conv2d(64, output_dim, 3, 1, 1)>>

Decoder_init(input_dim, output_dim, std, leaky_slope) ==
    LET self == [type |-> "Decoder", std |-> std, leaky_slope |-> leaky_slope,
                 convts |-> [type |-> "ModuleList",
                             layers |-> Decoder_convts(input_dim, output_dim)]]
    IN  CallInit("weight_init",
                 [self EXCEPT !.convts = ApplyLayers("weight_init", @)])

\* Encoder.__init__'s ModuleList, layer 1 with stride 1 in place of 2
Encoder_convs_stride1(input_dim) ==
    <<Conv2d(input_dim, 32, 5, 2, 2),
      Conv2d(32, 32, 3, 1, 1),
      Conv2d(32, 64, 3, 1, 1),
      Conv2d(64, 64, 3, 2, 1),
      Conv2d(64, 64, 3, 1, 1),
      Conv2d(64, 64, 1, 1, 0)>>

\* Encoder.__init__'s ModuleList self.convs, layers 0..5
Encoder_convs(input_dim) ==
    <<Conv2d(input_dim, 32, 5, 2, 2),
      Conv2d(32, 32, 3, 2, 1),
      Conv2d(32, 64, 3, 1, 1),
      Conv2d(64, 64, 3, 2, 1),
      Conv2d(64, 64, 3, 1, 1),
      Conv2d(64, 64, 1, 1, 0)>>

\* Encoder.__init__ with self.apply(weight_init) before the head is built
Encoder_init_apply_first(input_dim, latent_dim, hidden_units, leaky_slope) ==
    [type |-> "Encoder", leaky_slope |-> leaky_slope,
     convs |-> ApplyLayers("weight_init",
                           [type |-> "ModuleList",
                            layers |-> Encoder_convs(input_dim)]),
     gau |-> Gaussian_init(FlatFeatures, latent_dim, hidden_units, StdNone,
                           leaky_slope)]

\* Encoder.__init__: the convolutions, the Gaussian head, then
\* self.apply(weight_init) over every submodule
Encoder_init(input_dim, latent_dim, hidden_units, leaky_slope) ==
    LET self == [type |-> "Encoder", leaky_slope |-> leaky_slope,
                 convs |-> [type |-> "ModuleList",
                            layers |-> Encoder_convs(input_dim)],
                 gau |-> Gaussian_init(FlatFeatures, latent_dim, hidden_units,
                                       StdNone, leaky_slope)]
    IN  CallInit("weight_init",
                 [self EXCEPT !.convs = ApplyLayers("weight_init", @),
                              !.gau = ApplyGaussian("weight_init", @)])

\* LatentNetwork.__init__ with the decoder's two dimensions exchanged
LatentNetwork_init_swapped(observation_shape, latent_dim, leaky_slope, hidden_units) ==
    [type |-> "LatentNetwork",
     encoder |-> Encoder_init(observation_shape, latent_dim, hidden_units,
                              leaky_slope),
     decoder |-> Decoder_init(observation_shape, latent_dim,
                              StdOf(StdSqrtTenth), leaky_slope)]

LatentNetwork_init(observation_shape, latent_dim, leaky_slope, hidden_units) ==
    [type |-> "LatentNetwork",
     encoder |-> Encoder_init(observation_shape, latent_dim, hidden_units,
                              leaky_slope),
     decoder |-> Decoder_init(latent_dim, observation_shape,
                              StdOf(StdSqrtTenth), leaky_slope)]

TaskNetwork_init(input_dim, output_dim, hidden_units, initializer) ==
    [type |-> "TaskNetwork",
     net |-> create_linear_network(input_dim, output_dim * 2, hidden_units,
                                   "ReLU", initializer)]

\* whether a constructor's self.apply(weight_init) hit the assertion
ConstructionErr(m) ==
    IF m.type = "Decoder" THEN LayerErr(m.convts.layers)
    ELSE IF m.type = "Encoder" THEN LayerErr(m.convs.layers) \/ LayerErr(m.gau.net.layers)
    ELSE IF m.type = "LatentNetwork"
    THEN \/ LayerErr(m.encoder.convs.layers)
         \/ LayerErr(m.encoder.gau.net.layers)
         \/ LayerErr(m.decoder.convts.layers)
    ELSE FALSE

\* ------------------------------------------------------- forward passes
NoTensor == Tensor(<<>>, <<>>)
NoRet == [status |-> "none"]
Raised(exc) == [status |-> "raised", exc |-> exc]

\* a forward argument: one tensor, or a list or tuple of tensors
ArgTensor(t) == [kind |-> "tensor", t |-> t, items |-> <<>>]
ArgSeq(kind, items) == [kind |-> kind, t |-> NoTensor, items |-> items]
NoArg == [kind |-> "none", t |-> NoTensor, items |-> <<>>]

\* torch.distributions.Normal(loc, scale): the two are broadcast together
Broadcastable(a, b) ==
    /\ Ndim(a) = Ndim(b)
    /\ \A k \in 1..Ndim(a) : a.shape[k] = b.shape[k] \/ a.shape[k] = 1 \/ b.shape[k] = 1

BroadcastShape(a, b) ==
    [k \in 1..Ndim(a) |-> IF a.shape[k] = 1 THEN b.shape[k] ELSE a.shape[k]]

Expand(t, shape) ==
    IF t.shape = shape THEN t
    ELSE Tensor(shape, IF Ndim(t) = 2 /\ LastDim(t) = 1
                       THEN [k \in 1..shape[2] |-> t.data[1]]
                       ELSE t.data)

Normal(loc, scale) ==
    IF ~Broadcastable(loc, scale) THEN Raised("ValueError")
    ELSE [status |-> "returned", kind |-> "Normal",
          loc |-> Expand(loc, BroadcastShape(loc, scale)),
          scale |-> Expand(scale, BroadcastShape(loc, scale))]

\* self.net(x) of a create_linear_network: the last size must be the first
\* Linear's in_features and becomes the last Linear's out_features; y is the
\* row of values the layers compute
NetShapeOk(net, x) == Ndim(x) >= 1 /\ LastDim(x) = InFeatures(net)
NetForward(net, x, y) == Tensor(Append(ButLast(x.shape), OutFeatures(net)), y)

\* Gaussian.forward, lines 38-39: a list or tuple is concatenated
Gaussian_input(x) ==
    IF x.kind \in {"list", "tuple"} THEN TorchCat(x.items) ELSE x.t

SeqArgOk(x) == x.kind \in {"list", "tuple"} => CatOk(x.items)

\* Gaussian.forward's learned scale without the 1e-5
Gaussian_learned_std_no_eps(raw) ==
    Tensor(raw.shape, [k \in 1..Len(raw.data) |-> Softplus(raw.data[k])])

\* Gaussian.forward, line 47: std = F.softplus(std) + 1e-5
Gaussian_learned_std(raw) ==
    Tensor(raw.shape, [k \in 1..Len(raw.data) |-> Softplus(raw.data[k]) + Eps])

\* Gaussian.forward, after x = self.net(x) has given `out`
Gaussian_head(g, out) ==
    IF Truthy(g.std)
    THEN Normal(out, OnesLikeTimes(out, g.std.v))
    ELSE LET chunks == TorchChunk(out, 2)
         IN  IF Len(chunks) # 2 THEN Raised("ValueError")
             ELSE Normal(chunks[1], Gaussian_learned_std(chunks[2]))

Gaussian_forward(g, x, y) ==
    IF ~SeqArgOk(x) \/ ~NetShapeOk(g.net, Gaussian_input(x))
    THEN Raised("RuntimeError")
    ELSE Gaussian_head(g, NetForward(g.net, Gaussian_input(x), y))

\* ConstantGaussian.forward
ConstantGaussian_forward(g, x) ==
    IF g.std.isNone THEN Raised("TypeError")
    ELSE LET mean == Tensor(<<x.shape[1], g.output_dim>>,
                            [k \in 1..g.output_dim |-> 0])
         IN  Normal(mean, OnesLikeTimes(mean, g.std.v))

\* TaskNetwork.forward, lines 157-158: a list is concatenated
TaskNetwork_input(x) == IF x.kind = "list" THEN TorchCat(x.items) ELSE x.t

\* TaskNetwork.forward with the two chunks returned in the other order
TaskNetwork_split_swapped(out) ==
    LET chunks == TorchChunk(out, 2)
    IN  IF Len(chunks) # 2 THEN Raised("ValueError")
        ELSE [status |-> "returned", kind |-> "list",
              items |-> <<chunks[2], chunks[1]>>]

\* TaskNetwork.forward, lines 161-163: gamma, bias = chunk(.., 2); [gamma, bias]
TaskNetwork_split(out) ==
    LET chunks == TorchChunk(out, 2)
    IN  IF Len(chunks) # 2 THEN Raised("ValueError")
        ELSE [status |-> "returned", kind |-> "list",
              items |-> <<chunks[1], chunks[2]>>]

TaskNetwork_forward(tn, x, y) ==
    IF x.kind = "tuple" THEN Raised("TypeError")
    ELSE IF ~SeqArgOk(x) \/ ~NetShapeOk(tn.net, TaskNetwork_input(x))
    THEN Raised("RuntimeError")
    ELSE TaskNetwork_split(NetForward(tn.net, TaskNetwork_input(x), y))

\* A convolution layer on a 4-D tensor (B, C, H, W): the framework's size
\* rule, and the value v of the component the tensor's data follows
ConvOutSize(m, n, k) ==
    IF m.type = "Conv2d"
    THEN (n + 2 * m.pad - k) \div m.stride + 1
    ELSE (n - 1) * m.stride - 2 * m.pad + k + m.outpad

ConvShapeOk(m, t) ==
    /\ Ndim(t) = 4
    /\ t.shape[2] = m.cin
    /\ m.type = "Conv2d" =>
          t.shape[3] + 2 * m.pad >= m.kh /\ t.shape[4] + 2 * m.pad >= m.kw
    /\ ConvOutSize(m, t.shape[3], m.kh) >= 1
    /\ ConvOutSize(m, t.shape[4], m.kw) >= 1

ConvForward(m, t, v) ==
    Tensor(<<t.shape[1], m.cout,
             ConvOutSize(m, t.shape[3], m.kh),
             ConvOutSize(m, t.shape[4], m.kw)>>, <<v>>)

\* F.leaky_relu and torch.tanh act on every component
LeakyReluTensor(t, slope) ==
    Tensor(t.shape, [k \in 1..Len(t.data) |-> LeakyRelu(t.data[k], slope)])

TanhTensor(t) == Tensor(t.shape, [k \in 1..Len(t.data) |-> Tanh(t.data[k])])

\* one pass of a forward loop: F.leaky_relu(self.convs[i](x), leaky_slope)
LeakyConv(m, t, v, slope) == LeakyReluTensor(ConvForward(m, t, v), slope)

\* Decoder.forward's last layer with the loop's activation in place of tanh
Decoder_recon_leaky(dec, t, v) ==
    LeakyConv(dec.convts.layers[9], t, v, dec.leaky_slope)

\* Decoder.forward, line 95: recon = torch.tanh(self.convts[8](latent))
Decoder_recon(dec, t, v) ==
    TanhTensor(ConvForward(dec.convts.layers[9], t, v))

\* Decoder.forward, line 98
Decoder_return(dec, recon) ==
    IF dec.std.isNone THEN Raised("TypeError")
    ELSE Normal(recon, OnesLikeTimes(recon, dec.std.v))

\* Decoder.forward, line 90: latent.view(num_batches, latent_dim, 1, 1)
Decoder_view(latent) ==
    Tensor(<<latent.shape[1], latent.shape[2], 1, 1>>, <<latent.data[1]>>)

\* Encoder.forward, line 130: x.view(num_batches, -1)
Encoder_view(t, num_batches) ==
    Tensor(<<num_batches, Prod(t.shape) \div num_batches>>, t.data)

\* Encoder.forward, lines 132-134: dist = self.gau(x); return dist.loc, dist
Encoder_return(enc, flat, y) ==
    LET dist == Gaussian_forward(enc.gau, ArgTensor(flat), y)
    IN  IF dist.status = "raised" THEN dist
        ELSE [status |-> "returned", kind |-> "pair",
              mean |-> dist.loc, dist |-> dist]

\* ------------------------------------------------------------- inputs
Dims == 1..MaxDim
Batches == 1..MaxBatch

\* hidden_units: no hidden layer, or one
HiddenChoices == {<<>>, <<3>>}

\* std settings: None, 0, np.sqrt(0.1), 1.0
StdChoices == {StdNone, StdOf(0), StdOf(StdSqrtTenth), StdOf(StdOne)}
NumberStds == {StdOf(StdSqrtTenth), StdOf(StdOne)}

\* image heights and widths (tensors are not empty): the sizes around 216
\* (ceil(n/8) is 27 from 209 to 216), and 8 and 5832, whose ceil(n/8) are 1
\* and 729
Sizes == {8, 209, 216, 217, 5832}

\* a row of w distinct values starting at `first`
Row(w, first) == [k \in 1..w |-> first + k - 1]

\* 2-D tensors (B, w); the data tell the tensors and their components apart
Tensors2D == {Tensor(<<b, w>>, Row(w, 10 * w)) : b \in Batches, w \in Dims}

\* lists and tuples [a, b] of 2-D tensors of one batch size
Pairs ==
    {<<Tensor(<<b, w1>>, Row(w1, 10)), Tensor(<<b, w2>>, Row(w2, 20))>> :
        b \in Batches, w1 \in Dims, w2 \in Dims}

ForwardArgs ==
    {ArgTensor(t) : t \in Tensors2D}
    \cup {ArgSeq("list", q) : q \in Pairs}
    \cup {ArgSeq("tuple", q) : q \in Pairs}

Observations ==
    {Tensor(<<b, c, h, w>>, <<0>>) :
        b \in Batches, c \in Dims, h \in Sizes, w \in Sizes}

\* what a network of Linear layers can put out: rows of w values one apart,
\* low enough for softplus to vanish, around zero, and large
NetBases == {-105, -1, 20}
NetOutputs(w) == {[k \in 1..w |-> (base + k - 1) * Unit] : base \in NetBases}

\* what a convolution can put out at one component
PreActs == {-3 * Unit, 8 * Unit}

\* modules handed to weight_init directly
FreshModules ==
    {Linear(fin, fout) : fin \in Dims, fout \in Dims}
    \cup {ConvK(type, 1, 1, kh, kw, 1, 0, 0) :
            type \in {"Conv2d", "ConvTranspose2d"},
            kh \in 1..MaxKernel, kw \in 1..MaxKernel}
    \cup {Activation("LeakyReLU"), Activation("ReLU")}
    \cup {[type |-> "ModuleList", layers |-> <<Conv2d(1, 1, 3, 1, 1)>>]}

InitedModules == FreshModules \cup {weights_init_xavier(m) : m \in FreshModules}

\* --------------------------------------------------------------- state
VARIABLES
    pc,       \* "idle", "inited", "built", "Encoder.loop", "Decoder.loop",
              \* "returned", "raised"
    net,      \* the module constructed (or, after weight_init(m), m)
    ctor,     \* the constructor's arguments
    before,   \* the module weight_init was called on, as it was
    call,     \* the forward method running or run last
    arg,      \* its argument
    obs,      \* the observation encoded, while its mean is decoded
    x,        \* the forward loop's tensor
    i,        \* the forward loop's index
    applied,  \* the layers applied so far: <<index, activation>>
    netin,    \* the tensor handed to self.net
    netout,   \* the tensor self.net gave back
    ret       \* what the call returned or raised

vars ==
    <<pc, net, ctor, before, call, arg, obs, x, i, applied, netin, netout, ret>>

NoModule == [type |-> "none"]

NoCtor ==
    [input_dim |-> 0, output_dim |-> 0, latent_dim |-> 0, std |-> StdNone,
     hidden_units |-> <<>>, initializer |-> "none"]

Init ==
    /\ pc = "idle"
    /\ net = NoModule
    /\ ctor = NoCtor
    /\ before = NoModule
    /\ call = "none"
    /\ arg = NoArg
    /\ obs = NoTensor
    /\ x = NoTensor
    /\ i = 0
    /\ applied = <<>>
    /\ netin = NoTensor
    /\ netout = NoTensor
    /\ ret = NoRet

Idle == <<before, call, arg, obs, x, i, applied, netin, netout, ret>>

\* a constructor has run and left module m (or raised in self.apply)
Constructed(m, c) ==
    /\ pc = "idle"
    /\ net' = m
    /\ ctor' = c
    /\ pc' = IF ConstructionErr(m) THEN "raised" ELSE "built"
    /\ UNCHANGED Idle

NewGaussian ==
    \E input_dim \in Dims, output_dim \in Dims, hidden_units \in HiddenChoices,
       std \in StdChoices :
        Constructed(Gaussian_init(input_dim, output_dim, hidden_units, std,
                                  LeakySlope),
                    [NoCtor EXCEPT !.input_dim = input_dim,
                                   !.output_dim = output_dim,
                                   !.hidden_units = hidden_units,
                                   !.std = std])

NewConstantGaussian ==
    \E output_dim \in Dims, std \in NumberStds :
        Constructed(ConstantGaussian_init(output_dim, std),
                    [NoCtor EXCEPT !.output_dim = output_dim, !.std = std])

NewDecoder ==
    \E input_dim \in Dims, output_dim \in Dims, std \in NumberStds :
        Constructed(Decoder_init(input_dim, output_dim, std, LeakySlope),
                    [NoCtor EXCEPT !.input_dim = input_dim,
                                   !.output_dim = output_dim, !.std = std])

NewEncoder ==
    \E input_dim \in Dims, latent_dim \in Dims, hidden_units \in HiddenChoices :
        Constructed(Encoder_init(input_dim, latent_dim, hidden_units, LeakySlope),
                    [NoCtor EXCEPT !.input_dim = input_dim,
                                   !.latent_dim = latent_dim,
                                   !.hidden_units = hidden_units])

NewLatentNetwork ==
    \E observation_shape \in Dims, latent_dim \in Dims,
       hidden_units \in HiddenChoices :
        Constructed(LatentNetwork_init(observation_shape, latent_dim,
                                       LeakySlope, hidden_units),
                    [NoCtor EXCEPT !.input_dim = observation_shape,
                                   !.output_dim = observation_shape,
                                   !.latent_dim = latent_dim,
                                   !.hidden_units = hidden_units,
                                   !.std = StdOf(StdSqrtTenth)])

NewTaskNetwork ==
    \E input_dim \in Dims, output_dim \in Dims, hidden_units \in HiddenChoices,
       initializer \in Initializers :
        Constructed(TaskNetwork_init(input_dim, output_dim, hidden_units,
                                     initializer),
                    [NoCtor EXCEPT !.input_dim = input_dim,
                                   !.output_dim = output_dim,
                                   !.hidden_units = hidden_units,
                                   !.initializer = initializer])

\* weight_init(m) called on a module directly
CallWeightInit ==
    /\ pc = "idle"
    /\ \E m \in InitedModules :
        /\ before' = m
        /\ net' = weight_init(m)
        /\ pc' = IF IsConv(m) /\ weight_init(m).err # "none"
                 THEN "raised" ELSE "inited"
    /\ UNCHANGED <<ctor, call, arg, obs, x, i, applied, netin, netout, ret>>

\* a forward call that is one step: its result decides where it ends
Returned(name, a, fed, out, r) ==
    /\ call' = name
    /\ arg' = a
    /\ netin' = fed
    /\ netout' = out
    /\ ret' = r
    /\ pc' = r.status
    /\ UNCHANGED <<net, ctor, before, obs, x, i, applied>>

GaussianForward ==
    /\ pc = "built"
    /\ net.type = "Gaussian"
    /\ \E a \in ForwardArgs, y \in NetOutputs(OutFeatures(net.net)) :
        Returned("Gaussian.forward", a,
                 IF SeqArgOk(a) THEN Gaussian_input(a) ELSE NoTensor,
                 IF SeqArgOk(a) /\ NetShapeOk(net.net, Gaussian_input(a))
                 THEN NetForward(net.net, Gaussian_input(a), y) ELSE NoTensor,
                 Gaussian_forward(net, a, y))

ConstantGaussianForward ==
    /\ pc = "built"
    /\ net.type = "ConstantGaussian"
    /\ \E t \in Tensors2D :
        Returned("ConstantGaussian.forward", ArgTensor(t), NoTensor, NoTensor,
                 ConstantGaussian_forward(net, t))

TaskNetworkForward ==
    /\ pc = "built"
    /\ net.type = "TaskNetwork"
    /\ \E a \in ForwardArgs, y \in NetOutputs(OutFeatures(net.net)) :
        Returned("TaskNetwork.forward", a,
                 IF a.kind # "tuple" /\ SeqArgOk(a)
                 THEN TaskNetwork_input(a) ELSE NoTensor,
                 IF /\ a.kind # "tuple"
                    /\ SeqArgOk(a)
                    /\ NetShapeOk(net.net, TaskNetwork_input(a))
                 THEN NetForward(net.net, TaskNetwork_input(a), y) ELSE NoTensor,
                 TaskNetwork_forward(net, a, y))

\* the Encoder and the Decoder a forward call runs in
TheEncoder == IF net.type = "LatentNetwork" THEN net.encoder ELSE net
TheDecoder == IF net.type = "LatentNetwork" THEN net.decoder ELSE net

\* range(6) in Encoder.forward
Encoder_loop_count == 6
\* range(8) in Decoder.forward
Decoder_loop_count == 8

\* the call raises: nothing is returned
Raise(exc) ==
    /\ pc' = "raised"
    /\ ret' = Raised(exc)

\* Encoder.forward, line 125: num_batches, C, H, W = x.size()
EncoderBegin ==
    /\ pc = "built"
    /\ net.type \in {"Encoder", "LatentNetwork"}
    /\ \E o \in Observations :
        /\ arg' = ArgTensor(o)
        /\ x' = o
        /\ obs' = IF net.type = "LatentNetwork" THEN o ELSE NoTensor
    /\ call' = "Encoder.forward"
    /\ i' = 0
    /\ applied' = <<>>
    /\ pc' = "Encoder.loop"
    /\ UNCHANGED <<net, ctor, before, netin, netout, ret>>

\* Encoder.forward, lines 127-128: one pass of the loop
EncoderLayer ==
    /\ pc = "Encoder.loop"
    /\ i < Encoder_loop_count
    /\ LET m == TheEncoder.convs.layers[i + 1]
       IN  IF ~ConvShapeOk(m, x)
           THEN Raise("RuntimeError") /\ UNCHANGED <<x, i, applied>>
           ELSE /\ \E v \in PreActs :
                    x' = LeakyConv(m, x, v, TheEncoder.leaky_slope)
                /\ i' = i + 1
                /\ applied' = Append(applied, <<i, "leaky_relu">>)
                /\ UNCHANGED <<pc, ret>>
    /\ UNCHANGED <<net, ctor, before, call, arg, obs, netin, netout>>

\* Encoder.forward, lines 130-134: flatten, the Gaussian head, the return
EncoderEnd ==
    /\ pc = "Encoder.loop"
    /\ i = Encoder_loop_count
    /\ LET flat == Encoder_view(x, arg.t.shape[1])
       IN  /\ x' = flat
           /\ netin' = flat
           /\ \E y \in NetOutputs(OutFeatures(TheEncoder.gau.net)) :
                /\ netout' = IF NetShapeOk(TheEncoder.gau.net, flat)
                             THEN NetForward(TheEncoder.gau.net, flat, y)
                             ELSE NoTensor
                /\ ret' = Encoder_return(TheEncoder, flat, y)
    /\ pc' = ret'.status
    /\ UNCHANGED <<net, ctor, before, call, arg, obs, i, applied>>

\* Decoder.forward, lines 88-90, on a latent, or on the mean the encoder of
\* the same LatentNetwork returned
DecoderBegin ==
    /\ \/ /\ pc = "built"
          /\ net.type = "Decoder"
          /\ \E t \in Tensors2D : arg' = ArgTensor(t)
       \/ /\ pc = "returned"
          /\ net.type = "LatentNetwork"
          /\ call = "Encoder.forward"
          /\ arg' = ArgTensor(ret.mean)
    /\ x' = Decoder_view(arg'.t)
    /\ call' = "Decoder.forward"
    /\ i' = 0
    /\ applied' = <<>>
    /\ pc' = "Decoder.loop"
    /\ ret' = NoRet
    /\ UNCHANGED <<net, ctor, before, obs, netin, netout>>

\* Decoder.forward, lines 92-93: one pass of the loop
DecoderLayer ==
    /\ pc = "Decoder.loop"
    /\ i < Decoder_loop_count
    /\ LET m == TheDecoder.convts.layers[i + 1]
       IN  IF ~ConvShapeOk(m, x)
           THEN Raise("RuntimeError") /\ UNCHANGED <<x, i, applied>>
           ELSE /\ \E v \in PreActs :
                    x' = LeakyConv(m, x, v, TheDecoder.leaky_slope)
                /\ i' = i + 1
                /\ applied' = Append(applied, <<i, "leaky_relu">>)
                /\ UNCHANGED <<pc, ret>>
    /\ UNCHANGED <<net, ctor, before, call, arg, obs, netin, netout>>

\* Decoder.forward, lines 95-98: the last layer, tanh, the return
DecoderEnd ==
    /\ pc = "Decoder.loop"
    /\ i = Decoder_loop_count
    /\ IF ~ConvShapeOk(TheDecoder.convts.layers[i + 1], x)
       THEN Raise("RuntimeError") /\ UNCHANGED <<x, applied>>
       ELSE /\ \E v \in PreActs : x' = Decoder_recon(TheDecoder, x, v)
            /\ applied' = Append(applied, <<i, "tanh">>)
            /\ ret' = Decoder_return(TheDecoder, x')
            /\ pc' = ret'.status
    /\ UNCHANGED <<net, ctor, before, call, arg, obs, i, netin, netout>>

Next ==
    \/ NewGaussian
    \/ NewConstantGaussian
    \/ NewDecoder
    \/ NewEncoder
    \/ NewLatentNetwork
    \/ NewTaskNetwork
    \/ CallWeightInit
    \/ GaussianForward
    \/ ConstantGaussianForward
    \/ TaskNetworkForward
    \/ EncoderBegin
    \/ EncoderLayer
    \/ EncoderEnd
    \/ DecoderBegin
    \/ DecoderLayer
    \/ DecoderEnd

Spec == Init /\ [][Next]_vars

\* --------------------------------------------------------------- claims
AllOf(data, v) == \A k \in 1..Len(data) : data[k] = v

\* the side of the Encoder's feature maps, ceil(n / 8)
Eighth(n) == CeilDiv(n, 8)

DesignObservation ==
    /\ net.type = "LatentNetwork"
    /\ obs # NoTensor
    /\ obs.shape[2] = ctor.input_dim
    /\ obs.shape[3] = 216
    /\ obs.shape[4] = 216

\* C1: with LatentNetwork(C, L), an observation (B, C, 216, 216) is encoded
\* without an error to a mean of shape (B, L), and the mean is decoded
\* without an error to a loc and a scale of the observation's shape.
C1_RoundTripShape ==
    DesignObservation =>
        /\ pc # "raised"
        /\ (call = "Encoder.forward" /\ pc = "returned") =>
              ret.mean.shape = <<obs.shape[1], ctor.latent_dim>>
        /\ call = "Decoder.forward" =>
              arg.t.shape = <<obs.shape[1], ctor.latent_dim>>
        /\ (call = "Decoder.forward" /\ pc = "returned") =>
              /\ ret.loc.shape = obs.shape
              /\ ret.scale.shape = obs.shape

C1_Witness ==
    /\ DesignObservation
    /\ call = "Decoder.forward"
    /\ pc = "returned"
    /\ ctor.input_dim # ctor.latent_dim
    /\ obs.shape[1] > 1

EncoderCall ==
    /\ call = "Encoder.forward"
    /\ arg.t.shape[2] = ctor.input_dim

EncoderFits ==
    64 * Eighth(arg.t.shape[3]) * Eighth(arg.t.shape[4]) = 27 * 27 * 64

\* C2: Encoder.forward on a non-empty (B, C, H, W), C the encoder's
\* input_dim: the six convolutions run in index order, once each, and leave
\* (B, 64, ceil(H/8), ceil(W/8)); the call returns exactly when
\* 64*ceil(H/8)*ceil(W/8) is 27*27*64, and then returns (mean, dist) with
\* mean = dist.loc of shape (B, latent_dim); otherwise it raises the
\* framework's shape error.
C2_EncoderForward ==
    EncoderCall =>
        /\ applied = [k \in 1..i |-> <<k - 1, "leaky_relu">>]
        /\ i <= 6
        /\ (pc = "Encoder.loop" /\ i = 6) =>
              x.shape = <<arg.t.shape[1], 64,
                          Eighth(arg.t.shape[3]), Eighth(arg.t.shape[4])>>
        /\ pc \in {"returned", "raised"} =>
              /\ i = 6
              /\ netin.shape =
                    <<arg.t.shape[1],
                      64 * Eighth(arg.t.shape[3]) * Eighth(arg.t.shape[4])>>
        /\ pc = "returned" =>
              /\ EncoderFits
              /\ ret.kind = "pair"
              /\ ret.dist.kind = "Normal"
              /\ ret.mean = ret.dist.loc
              /\ ret.mean.shape = <<arg.t.shape[1], ctor.latent_dim>>
        /\ pc = "raised" =>
              /\ ~EncoderFits
              /\ ret.exc = "RuntimeError"

C2_Witness ==
    /\ EncoderCall
    /\ pc = "returned"
    /\ arg.t.shape[3] # arg.t.shape[4]

ConfiguredStd ==
    IF call = "Encoder.forward" THEN TheEncoder.gau.std
    ELSE IF call = "Decoder.forward" THEN TheDecoder.std
    ELSE net.std

StdNoneOrPositive(std) == std.isNone \/ std.v > 0

ValidNormal(d) ==
    /\ d.kind = "Normal"
    /\ d.scale.shape = d.loc.shape
    /\ Len(d.scale.data) = Len(d.loc.data)
    /\ \A k \in 1..Len(d.scale.data) : d.scale.data[k] > 0

\* C3: every Normal that Gaussian.forward, ConstantGaussian.forward,
\* Decoder.forward and Encoder.forward return has a scale that is positive in
\* every component and of its loc's shape, when the std configured is None or
\* a positive number.
C3_ScalePositive ==
    /\ (/\ pc = "returned"
        /\ call \in {"Gaussian.forward", "ConstantGaussian.forward",
                     "Decoder.forward"}
        /\ StdNoneOrPositive(ConfiguredStd)) => ValidNormal(ret)
    /\ (/\ pc = "returned"
        /\ call = "Encoder.forward"
        /\ StdNoneOrPositive(ConfiguredStd)) => ValidNormal(ret.dist)

C3_Witness ==
    /\ pc = "returned"
    /\ call = "Gaussian.forward"
    /\ net.std.isNone
    /\ \E k \in 1..Len(ret.scale.data) : ret.scale.data[k] = Eps

\* C4: TaskNetwork.forward returns the list [gamma, bias] of two tensors of
\* last size output_dim: gamma the first output_dim components and bias the
\* last output_dim components of the network's 2*output_dim wide output; a
\* list argument is concatenated along the last dimension before the network
\* sees it, so that forward([a, b]) is forward(cat(a, b)).
C4_TaskNetworkForward ==
    (call = "TaskNetwork.forward" /\ pc = "returned") =>
        /\ ret.kind = "list"
        /\ Len(ret.items) = 2
        /\ LastDim(netout) = 2 * ctor.output_dim
        /\ LastDim(ret.items[1]) = ctor.output_dim
        /\ LastDim(ret.items[2]) = ctor.output_dim
        /\ ret.items[1].data = SubSeq(netout.data, 1, ctor.output_dim)
        /\ ret.items[2].data =
              SubSeq(netout.data, ctor.output_dim + 1, 2 * ctor.output_dim)
        /\ arg.kind = "list" =>
              /\ netin = TorchCat(arg.items)
              /\ netin.data = arg.items[1].data \o arg.items[2].data
              /\ ret = TaskNetwork_forward(net, ArgTensor(TorchCat(arg.items)),
                                           netout.data)

C4_Witness ==
    /\ call = "TaskNetwork.forward"
    /\ pc = "returned"
    /\ arg.kind = "list"
    /\ ctor.output_dim > 1

DecoderSides == <<1, 27, 27, 54, 54, 108, 216, 216, 216, 216>>

DecoderCall ==
    /\ call = "Decoder.forward"
    /\ arg.t.shape[2] =
          (IF net.type = "LatentNetwork" THEN ctor.latent_dim ELSE ctor.input_dim)

\* C5: Decoder.forward on a latent (B, input_dim) applies layers 0..8 in
\* order, once each, leaky-ReLU after 0..7 and tanh after 8; the side goes
\* 1, 27, 27, 54, 54, 108, 216, 216, 216, 216; loc has shape
\* (B, output_dim, 216, 216) with every component in [-1, 1], and scale is
\* the configured std in every component.
C5_DecoderForward ==
    DecoderCall =>
        /\ pc # "raised"
        /\ applied = [k \in 1..Len(applied) |->
                         <<k - 1, IF k - 1 < 8 THEN "leaky_relu" ELSE "tanh">>]
        /\ pc = "Decoder.loop" =>
              /\ Len(applied) = i
              /\ x.shape[3] = DecoderSides[i + 1]
              /\ x.shape[4] = DecoderSides[i + 1]
        /\ pc = "returned" =>
              /\ Len(applied) = 9
              /\ ret.kind = "Normal"
              /\ ret.loc.shape = <<arg.t.shape[1], ctor.output_dim, 216, 216>>
              /\ \A k \in 1..Len(ret.loc.data) :
                    -Unit <= ret.loc.data[k] /\ ret.loc.data[k] <= Unit
              /\ ret.scale.shape = ret.loc.shape
              /\ AllOf(ret.scale.data, TheDecoder.std.v)

C5_Witness ==
    /\ DecoderCall
    /\ net.type = "Decoder"
    /\ pc = "returned"
    /\ ret.loc.data[1] = Unit

\* C6: after weight_init(m) on a Conv2d or ConvTranspose2d with a k x k
\* kernel the bias is zero and every weight off the centre tap (k \div 2,
\* k \div 2) is zero; on a Linear layer the bias is zero; a module of any
\* other type is as it was.
C6_DeltaOrthogonal ==
    pc = "inited" =>
        /\ (IsConv(before) /\ before.kh = before.kw) =>
              /\ net.bias = "zero"
              /\ \A pos \in DOMAIN net.weight :
                    pos # <<before.kh \div 2, before.kh \div 2>> =>
                        net.weight[pos] = "zero"
        /\ before.type = "Linear" => net.bias = "zero"
        /\ (~IsConv(before) /\ before.type # "Linear") => net = before

C6_Witness ==
    /\ pc = "inited"
    /\ IsConv(before)
    /\ before.kh = 3
    /\ before.kw = 3
    /\ before.weight[<<0, 0>>] = "xavier"
    /\ before.bias = "zero"

VisitedConvs ==
    IF net.type = "Decoder" THEN net.convts.layers
    ELSE IF net.type = "Encoder" THEN net.convs.layers
    ELSE IF net.type = "LatentNetwork"
    THEN net.encoder.convs.layers \o net.decoder.convts.layers
    ELSE <<>>

\* C7: constructing an Encoder or a Decoder never fails weight_init's
\* assertion: every Conv2d and ConvTranspose2d that self.apply(weight_init)
\* visits has a kernel as high as wide.
C7_SquareKernels ==
    /\ ~ConstructionErr(net)
    /\ \A k \in 1..Len(VisitedConvs) :
          /\ IsConv(VisitedConvs[k])
          /\ VisitedConvs[k].kh = VisitedConvs[k].kw
          /\ VisitedConvs[k].err = "none"
          /\ VisitedConvs[k].inits = <<"weight_init">>

C7_Witness ==
    /\ net.type = "Decoder"
    /\ pc = "built"
    /\ Len(VisitedConvs) = 9

HeadNet ==
    IF net.type = "Encoder" THEN net.gau.net
    ELSE IF net.type = "LatentNetwork" THEN net.encoder.gau.net
    ELSE net.net

\* C8: in a constructed Encoder every Linear layer of the Gaussian head was
\* initialised by weights_init_xavier first and by weight_init afterwards,
\* and carries weight_init's orthogonal weight and zero bias; the Linear
\* layers of a stand-alone Gaussian were initialised by weights_init_xavier
\* only.
C8_InitOrder ==
    /\ net.type \in {"Encoder", "LatentNetwork"} =>
          \A k \in LinearLayers(HeadNet) :
              /\ HeadNet.layers[k].inits = <<"weights_init_xavier", "weight_init">>
              /\ HeadNet.layers[k].weight = "orthogonal"
              /\ HeadNet.layers[k].bias = "zero"
    /\ net.type = "Gaussian" =>
          \A k \in LinearLayers(HeadNet) :
              /\ HeadNet.layers[k].inits = <<"weights_init_xavier">>
              /\ HeadNet.layers[k].weight = "xavier"

C8_Witness ==
    /\ net.type = "Encoder"
    /\ pc = "built"
    /\ Cardinality(LinearLayers(HeadNet)) > 1

GaussianCall ==
    /\ call = "Gaussian.forward"
    /\ pc \in {"returned", "raised"}
    /\ netout # NoTensor

\* C9: Gaussian's constructor and forward agree on the mode for every std:
\* with std None the network is 2*output_dim wide and forward returns a mean
\* and a learned scale of output_dim components each; with any other std,
\* 0 included, the network is output_dim wide and forward returns the whole
\* network output as the mean, and a scale equal to std everywhere.  The mean
\* has output_dim components in every case.
C9_GaussianModesAgree ==
    GaussianCall =>
        /\ pc = "returned"
        /\ LastDim(ret.loc) = ctor.output_dim
        /\ net.std.isNone =>
              /\ LastDim(netout) = 2 * ctor.output_dim
              /\ ret.loc.data = SubSeq(netout.data, 1, ctor.output_dim)
              /\ LastDim(ret.scale) = ctor.output_dim
        /\ ~net.std.isNone =>
              /\ LastDim(netout) = ctor.output_dim
              /\ ret.loc = netout
              /\ AllOf(ret.scale.data, net.std.v)

====
